---- MODULE Spec2Model ----
(***************************************************************************)
(* Asynchronous job tracker of tiny_cp_client: the in-memory job registry  *)
(* (jobs, guarded by jobs_lock), the work queue (work_q), the single       *)
(* background worker and the HTTP handlers upload, status and download.    *)
(*                                                                         *)
(* Python objects are shared by reference: status() copies the list of     *)
(* (id, dict) pairs under the lock but the dicts themselves stay live, and *)
(* download() keeps the dict returned by jobs.get(); both read the fields  *)
(* after the lock is released.  Those reads are separate actions here.     *)
(*                                                                         *)
(* Assumptions: uuid.uuid4() never returns the same value twice, and two   *)
(* identifiers never share their first 8 characters, so a file name built  *)
(* from job_id[:8] is determined by the identifier.                        *)
(***************************************************************************)
EXTENDS Integers, Sequences, FiniteSets, TLC

\* ---- bounds ----
MaxJobs == 2        \* number of uuids the uploads may draw
MaxThreads == 2     \* number of concurrently served HTTP requests
MaxRequests == 3    \* number of HTTP requests served in total

Threads == 1..MaxThreads
JobIds == 1..(MaxJobs + 1)      \* identifiers a client may ask for

\* ---- values ----
None == "None"          \* Python None
NoKey == "NoKey"        \* the key is absent from the dict
Free == "free"          \* jobs_lock is not held
WorkerT == "worker"     \* the background worker thread
Filenames == {"a.tif"}  \* f.filename of an upload that carries a file
NoFile == "NoFile"      \* request.files.get("file") is None / empty filename
LogLines == {"log line"}

\* exceptions the worker's try block can raise; all derive from Exception
ExcLoad == "cannot read image"
ExcSegment == "segmentation failed"
ExcWrite == "cannot write result"
ExcUnlink == "cannot delete upload"
Exceptions == {ExcLoad, ExcSegment, ExcWrite, ExcUnlink}

UploadNames == <<"uploads/1", "uploads/2", "uploads/3", "uploads/4", "uploads/5">>
ResultNames == <<"results/1", "results/2", "results/3", "results/4", "results/5">>

\* UPLOAD_DIR / f"{stem}_{job_id[:8]}{suffix}"
UploadPath(job_id) == UploadNames[job_id]
\* RESULT_DIR / f"{stem}_{job_id[:8]}_masks.tif"
ResultPath(job_id) == ResultNames[job_id]

\* ---- request.form and the settings parsed from it ----

\* a Python value that may be None: <<>> is None, <<x>> is the value x;
\* floats are counted in tenths (0.4 is 4)
PyNone == <<>>
Py(x) == <<x>>

Absent == "Absent"      \* the key is not in request.form
RawStrings == {"", "  ", "abc", "-5", "0", "1", "7", "1.5"}
UploadKeys == {"diameter", "channel_cyto", "channel_nuc", "flow_threshold",
               "cellprob_threshold", "min_size"}
SchemaKeys == UploadKeys \cup {"do_3d", "anisotropy"}

EmptyForm == [k \in SchemaKeys |-> Absent]
\* the forms a client sends: at most one field is present
FormsOver(keys) ==
  {EmptyForm} \cup {[EmptyForm EXCEPT ![k] = v] : k \in keys, v \in RawStrings}
Forms == FormsOver(UploadKeys)
SchemaForms == FormsOver(SchemaKeys)

\* float(s): the value in tenths, or ValueError
ParseFloat(s) ==
  CASE s = "-5" -> [ok |-> TRUE, val |-> -50]
    [] s = "0" -> [ok |-> TRUE, val |-> 0]
    [] s = "1" -> [ok |-> TRUE, val |-> 10]
    [] s = "7" -> [ok |-> TRUE, val |-> 70]
    [] s = "1.5" -> [ok |-> TRUE, val |-> 15]
    [] OTHER -> [ok |-> FALSE, val |-> 0]

\* int(s): the value, or ValueError
ParseInt(s) ==
  CASE s = "-5" -> [ok |-> TRUE, val |-> -5]
    [] s = "0" -> [ok |-> TRUE, val |-> 0]
    [] s = "1" -> [ok |-> TRUE, val |-> 1]
    [] s = "7" -> [ok |-> TRUE, val |-> 7]
    [] OTHER -> [ok |-> FALSE, val |-> 0]

\* KeyError and ValueError give the default
_float_or(form, key, default) ==
  IF form[key] = Absent \/ ~ParseFloat(form[key]).ok
    THEN default
    ELSE Py(ParseFloat(form[key]).val)

\* likewise with int()
_int_or(form, key, default) ==
  IF form[key] = Absent \/ ~ParseInt(form[key]).ok
    THEN default
    ELSE Py(ParseInt(form[key]).val)

\* the settings dict upload() builds (src/app.py 277-291)
Settings(form) ==
  LET d == _float_or(form, "diameter", PyNone)
      diameter == IF d # PyNone /\ d[1] <= 0 THEN PyNone ELSE d
  IN [diameter |-> diameter,
      channels |-> <<_int_or(form, "channel_cyto", Py(0)),
                     _int_or(form, "channel_nuc", Py(0))>>,
      flow_threshold |-> _float_or(form, "flow_threshold", Py(4)),
      cellprob_threshold |-> _float_or(form, "cellprob_threshold", Py(0)),
      min_size |-> _int_or(form, "min_size", Py(15))]

\* ---- SegmentationSettings (src/schema.py) ----

Valid(v) == [ok |-> TRUE, val |-> v]
Invalid == [ok |-> FALSE, val |-> PyNone]

\* the validator of diameter, run before the type check
_parse_diameter(v) ==
  IF v = "" THEN Valid(PyNone)
  ELSE IF ~ParseFloat(v).ok THEN Invalid
  ELSE IF ParseFloat(v).val > 0 THEN Valid(Py(ParseFloat(v).val))
  ELSE Valid(PyNone)

\* the validator of anisotropy, run before the type check
_parse_anisotropy(v) ==
  IF v = "" THEN Valid(PyNone)
  ELSE IF ~ParseFloat(v).ok THEN Invalid
  ELSE Valid(Py(ParseFloat(v).val))

\* a field declared float, int or bool, given a string
FloatField(v) == IF ParseFloat(v).ok THEN Valid(Py(ParseFloat(v).val)) ELSE Invalid
IntField(v) == IF ParseInt(v).ok THEN Valid(Py(ParseInt(v).val)) ELSE Invalid
BoolField(v) ==
  IF v = "1" THEN Valid(Py(TRUE)) ELSE IF v = "0" THEN Valid(Py(FALSE)) ELSE Invalid

\* one field of the model: the default when the key is absent, otherwise
\* the validator's outcome
SchemaField(form, key) ==
  IF form[key] = Absent
    THEN CASE key = "diameter" -> Valid(PyNone)
           [] key = "channel_cyto" -> Valid(Py(0))
           [] key = "channel_nuc" -> Valid(Py(0))
           [] key = "flow_threshold" -> Valid(Py(4))
           [] key = "cellprob_threshold" -> Valid(Py(0))
           [] key = "min_size" -> Valid(Py(15))
           [] key = "do_3d" -> Valid(Py(FALSE))
           [] key = "anisotropy" -> Valid(PyNone)
    ELSE CASE key = "diameter" -> _parse_diameter(form[key])
           [] key = "anisotropy" -> _parse_anisotropy(form[key])
           [] key \in {"channel_cyto", "channel_nuc", "min_size"} -> IntField(form[key])
           [] key = "do_3d" -> BoolField(form[key])
           [] OTHER -> FloatField(form[key])

\* SegmentationSettings(**form): the validated record, or ValidationError
\* naming every field that failed
SegmentationSettings(form) ==
  LET errors == {k \in SchemaKeys : ~SchemaField(form, k).ok} IN
    [ok |-> errors = {},
     errors |-> errors,
     settings |-> [k \in SchemaKeys |-> SchemaField(form, k).val]]

\* Path(f.filename).stem
Stem(filename) == CASE filename = "a.tif" -> "a" [] OTHER -> filename

VARIABLES
  jobs,        \* the dict jobs, in insertion order: sequence of records
  jobs_lock,   \* holder of jobs_lock, or Free
  work_q,      \* queue.Queue of job ids
  uploads,     \* files present in UPLOAD_DIR
  results,     \* files present in RESULT_DIR
  issued,      \* number of uuid4() values handed out
  started,     \* number of HTTP requests accepted so far
  w_pc,        \* worker: position in the loop
  w_job,       \* worker: local job_id
  w_exc,       \* worker: the exception caught by except
  h_pc,        \* request thread: position in its handler
  h_id,        \* request thread: local job_id
  h_file,      \* upload: local f.filename
  h_form,      \* upload: request.form
  h_fresh,     \* history: no write to jobs since status() copied it
  h_items,     \* status: local list items (ids of the referenced dicts)
  h_out,       \* status: entries serialised so far
  h_cur,       \* status: entry being built by the dict comprehension
  h_resp,      \* request thread: the response returned
  ins_order,   \* history: ids in the order upload() inserted them
  enq_order,   \* history: ids in the order of work_q.put
  proc_order,  \* history: ids in the order they became processing
  eval_calls,  \* history: ids in the order MODEL.eval was called for them
  overlapped,  \* history: <<a, b>>: b was inserted while a was inserted and
               \* not yet enqueued
  ext_deleted  \* history: result files removed from outside

wvars == <<w_pc, w_job, w_exc>>
rvars == <<h_pc, h_id, h_file, h_form, h_items, h_out, h_cur, h_resp>>
hvars == <<rvars, h_fresh>>
fsvars == <<uploads, results, ext_deleted>>
histvars == <<ins_order, enq_order, proc_order, eval_calls, overlapped>>
vars == <<jobs, jobs_lock, work_q, issued, started, wvars, hvars, fsvars, histvars>>

\* ---- dict helpers ----
Keys(d) == {d[i].id : i \in 1..Len(d)}
Has(d, k) == k \in Keys(d)
Idx(d, k) == CHOOSE i \in 1..Len(d) : d[i].id = k
Get(d, k) == d[Idx(d, k)]

\* d[k] = rec : a new key goes last, an existing key keeps its place
DictSet(d, k, rec) ==
  IF Has(d, k) THEN [d EXCEPT ![Idx(d, k)] = rec] ELSE Append(d, rec)

\* d[k][field] = v for the fields the worker writes
SetStatus(d, k, v) == [d EXCEPT ![Idx(d, k)].status = v]
SetResult(d, k, v) == [d EXCEPT ![Idx(d, k)].result = v]
SetError(d, k, v) == [d EXCEPT ![Idx(d, k)].error = v]
SetLog(d, k, v) == [d EXCEPT ![Idx(d, k)].log = v]

\* len(job): seven keys at insertion, eight once "log" was added
DictLen(job) == IF job.log = NoKey THEN 7 ELSE 8

\* variant of Reverse: the list is left in insertion order
NotReversed(s) == s

RECURSIVE Reverse(_)
Reverse(s) == IF s = <<>> THEN <<>> ELSE Append(Reverse(Tail(s)), Head(s))

\* uuid.uuid4(): a value never returned before
uuid4 == issued + 1

\* variant of Caught: the except clause names OSError only
CaughtOSError(exc) == exc \in {ExcLoad, ExcWrite, ExcUnlink}

\* isinstance(exc, Exception)
Caught(exc) == exc \in Exceptions

NoResp == [kind |-> "none", code |-> 0, data |-> <<>>]
NoCur == [id |-> 0, used |-> 0, status |-> None, result |-> None]
Resp(kind, code, data) == [kind |-> kind, code |-> code, data |-> data]

Init ==
  /\ jobs = <<>>
  /\ jobs_lock = Free
  /\ work_q = <<>>
  /\ uploads = {}
  /\ results = {}
  /\ issued = 0
  /\ started = 0
  /\ w_pc = "get"
  /\ w_job = 0
  /\ w_exc = None
  /\ h_pc = [t \in Threads |-> "idle"]
  /\ h_id = [t \in Threads |-> 0]
  /\ h_file = [t \in Threads |-> NoFile]
  /\ h_form = [t \in Threads |-> EmptyForm]
  /\ h_fresh = [t \in Threads |-> FALSE]
  /\ h_items = [t \in Threads |-> <<>>]
  /\ h_out = [t \in Threads |-> <<>>]
  /\ h_cur = [t \in Threads |-> NoCur]
  /\ h_resp = [t \in Threads |-> NoResp]
  /\ ins_order = <<>>
  /\ enq_order = <<>>
  /\ proc_order = <<>>
  /\ eval_calls = <<>>
  /\ overlapped = {}
  /\ ext_deleted = {}

\* ---- background worker (src/app.py 35-67, src/worker.py 41-86) ----

\* a write to the dict jobs: every earlier copy of it is out of date
Written == h_fresh' = [t \in Threads |-> FALSE]

\* an exception raised inside the try block: the except clause takes it when
\* it is an Exception, otherwise finally runs and the thread ends
Raise(exc) ==
  /\ w_exc' = exc
  /\ w_pc' = IF Caught(exc) THEN "except" ELSE "unwind"

\* variant of W_Get over a LIFO queue
W_Get_Lifo ==
  /\ w_pc = "get"
  /\ work_q # <<>>
  /\ w_job' = work_q[Len(work_q)]
  /\ work_q' = SubSeq(work_q, 1, Len(work_q) - 1)
  /\ w_pc' = "mark"
  /\ UNCHANGED <<jobs, jobs_lock, issued, started, w_exc, hvars, fsvars, histvars>>

\* job_id = work_q.get()
W_Get ==
  /\ w_pc = "get"
  /\ work_q # <<>>
  /\ w_job' = Head(work_q)
  /\ work_q' = Tail(work_q)
  /\ w_pc' = "mark"
  /\ UNCHANGED <<jobs, jobs_lock, issued, started, w_exc, hvars, fsvars, histvars>>

\* variant of W_Mark that keeps jobs_lock while the job is processed
W_Mark_KeepLock ==
  /\ w_pc = "mark"
  /\ jobs_lock = Free
  /\ Has(jobs, w_job)
  /\ jobs' = SetStatus(jobs, w_job, "processing")
  /\ Written
  /\ jobs_lock' = WorkerT
  /\ proc_order' = Append(proc_order, w_job)
  /\ w_pc' = "imread"
  /\ UNCHANGED <<work_q, issued, started, w_job, w_exc, rvars, fsvars,
                 ins_order, enq_order, eval_calls, overlapped>>

\* with jobs_lock: job = jobs[job_id]; ...; job["status"] = "processing"
\* (one write inside the critical section: taken and released in one step)
W_Mark ==
  /\ w_pc = "mark"
  /\ jobs_lock = Free
  /\ IF Has(jobs, w_job)
       THEN /\ jobs' = SetStatus(jobs, w_job, "processing")
            /\ Written
            /\ proc_order' = Append(proc_order, w_job)
            /\ w_pc' = "imread"
       ELSE \* KeyError outside the try block ends the thread
            /\ w_pc' = "dead"
            /\ UNCHANGED <<jobs, proc_order, h_fresh>>
  /\ UNCHANGED <<jobs_lock, work_q, issued, started, w_job, w_exc, rvars, fsvars,
                 ins_order, enq_order, eval_calls, overlapped>>

\* img = io.imread(upload_path)
W_Imread ==
  /\ w_pc = "imread"
  /\ \/ w_pc' = "eval" /\ UNCHANGED w_exc
     \/ Raise(ExcLoad)
  /\ UNCHANGED <<jobs, jobs_lock, work_q, issued, started, w_job, hvars, fsvars, histvars>>

\* _JobLogHandler.emit, called by the cellpose logger while the handler is
\* attached and cellpose code runs
W_Emit ==
  /\ w_pc \in {"imread", "eval"}
  /\ jobs_lock = Free
  /\ \E line \in LogLines :
       /\ Has(jobs, w_job)
       /\ Get(jobs, w_job).log # line
       /\ jobs' = SetLog(jobs, w_job, line)
       /\ Written
  /\ UNCHANGED <<jobs_lock, work_q, issued, started, wvars, rvars, fsvars, histvars>>

\* masks, _, _ = MODEL.eval(img, ...)
W_Eval ==
  /\ w_pc = "eval"
  /\ \/ w_pc' = "imwrite" /\ UNCHANGED w_exc
     \/ Raise(ExcSegment)
  /\ eval_calls' = Append(eval_calls, w_job)
  /\ UNCHANGED <<jobs, jobs_lock, work_q, issued, started, w_job, hvars, fsvars,
                 ins_order, enq_order, proc_order, overlapped>>

\* tifffile.imwrite(str(result_path), ...): a failed write may leave a file
W_Imwrite ==
  /\ w_pc = "imwrite"
  /\ \/ /\ results' = results \cup {ResultPath(w_job)}
        /\ w_pc' = "unlink"
        /\ UNCHANGED w_exc
     \/ /\ results' \in {results, results \cup {ResultPath(w_job)}}
        /\ Raise(ExcWrite)
  /\ UNCHANGED <<jobs, jobs_lock, work_q, issued, started, w_job, hvars, uploads,
                 ext_deleted, histvars>>

\* upload_path.unlink(missing_ok=True)
W_Unlink ==
  /\ w_pc = "unlink"
  /\ \/ /\ uploads' = uploads \ {UploadPath(w_job)}
        /\ w_pc' = "done"
        /\ UNCHANGED w_exc
     \/ /\ UploadPath(w_job) \in uploads
        /\ UNCHANGED uploads
        /\ Raise(ExcUnlink)
  /\ UNCHANGED <<jobs, jobs_lock, work_q, issued, started, w_job, hvars, results,
                 ext_deleted, histvars>>

\* variant of W_DoneStatus that leaves the lock between the two writes
W_DoneStatus_Unlocked ==
  /\ w_pc = "done"
  /\ jobs_lock = Free
  /\ jobs_lock' = Free
  /\ jobs' = SetStatus(jobs, w_job, "done")
  /\ Written
  /\ w_pc' = "done_result"
  /\ UNCHANGED <<work_q, issued, started, w_job, w_exc, rvars, fsvars, histvars>>

\* with jobs_lock: jobs[job_id]["status"] = "done"
W_DoneStatus ==
  /\ w_pc = "done"
  /\ jobs_lock = Free
  /\ jobs_lock' = WorkerT
  /\ jobs' = SetStatus(jobs, w_job, "done")
  /\ Written
  /\ w_pc' = "done_result"
  /\ UNCHANGED <<work_q, issued, started, w_job, w_exc, rvars, fsvars, histvars>>

\*                 jobs[job_id]["result"] = str(result_path); lock released
W_DoneResult ==
  /\ w_pc = "done_result"
  /\ jobs_lock = WorkerT
  /\ jobs' = SetResult(jobs, w_job, ResultPath(w_job))
  /\ Written
  /\ jobs_lock' = Free
  /\ w_pc' = "finally"
  /\ UNCHANGED <<work_q, issued, started, w_job, w_exc, rvars, fsvars, histvars>>

\* variant of W_ErrStatus that does not write the status
W_ErrStatus_Skip ==
  /\ w_pc = "except"
  /\ jobs_lock = Free
  /\ jobs_lock' = WorkerT
  /\ UNCHANGED jobs
  /\ w_pc' = "except_error"
  /\ UNCHANGED <<work_q, issued, started, w_job, w_exc, hvars, fsvars, histvars>>

\* variant of W_ErrStatus that puts the failed job back to "queued"
W_ErrStatus_Requeue ==
  /\ w_pc = "except"
  /\ jobs_lock = Free
  /\ jobs_lock' = WorkerT
  /\ jobs' = SetStatus(jobs, w_job, "queued")
  /\ Written
  /\ w_pc' = "except_error"
  /\ UNCHANGED <<work_q, issued, started, w_job, w_exc, rvars, fsvars, histvars>>

\* except Exception as exc: with jobs_lock: jobs[job_id]["status"] = "error"
W_ErrStatus ==
  /\ w_pc = "except"
  /\ jobs_lock = Free
  /\ jobs_lock' = WorkerT
  /\ jobs' = SetStatus(jobs, w_job, "error")
  /\ Written
  /\ w_pc' = "except_error"
  /\ UNCHANGED <<work_q, issued, started, w_job, w_exc, rvars, fsvars, histvars>>

\*                 jobs[job_id]["error"] = str(exc); lock released
W_ErrError ==
  /\ w_pc = "except_error"
  /\ jobs_lock = WorkerT
  /\ jobs' = SetError(jobs, w_job, w_exc)
  /\ Written
  /\ jobs_lock' = Free
  /\ w_pc' = "finally"
  /\ UNCHANGED <<work_q, issued, started, w_job, w_exc, rvars, fsvars, histvars>>

\* variant of W_Finally in which the loop ends after a failed job
W_Finally_Exit ==
  /\ w_pc \in {"finally", "unwind"}
  /\ w_pc' = IF w_exc = None /\ w_pc = "finally" THEN "get" ELSE "dead"
  /\ w_job' = 0
  /\ w_exc' = None
  /\ UNCHANGED <<jobs, jobs_lock, work_q, issued, started, hvars, fsvars, histvars>>

\* finally: work_q.task_done(); back to the top of while True, unless an
\* exception is still propagating, which ends the thread
W_Finally ==
  /\ w_pc \in {"finally", "unwind"}
  /\ w_pc' = IF w_pc = "finally" THEN "get" ELSE "dead"
  /\ w_job' = 0
  /\ w_exc' = None
  /\ UNCHANGED <<jobs, jobs_lock, work_q, issued, started, hvars, fsvars, histvars>>

worker ==
  \/ W_Get \/ W_Mark \/ W_Imread \/ W_Emit \/ W_Eval \/ W_Imwrite \/ W_Unlink
  \/ W_DoneStatus \/ W_DoneResult \/ W_ErrStatus \/ W_ErrError \/ W_Finally

\* ---- HTTP handlers, one thread per request ----

\* the handler returns resp; the thread's locals are kept until H_Return
Respond(t, resp) ==
  /\ h_resp' = [h_resp EXCEPT ![t] = resp]
  /\ h_pc' = [h_pc EXCEPT ![t] = "respond"]

\* upload(): the file check, uuid4() and f.save(), for a form among forms
U_SaveFrom(t, forms) ==
  /\ h_pc[t] = "idle"
  /\ started < MaxRequests
  /\ started' = started + 1
  /\ \E f \in Filenames \cup {NoFile}, form \in forms :
       /\ h_form' = [h_form EXCEPT ![t] = form]
       /\ IF f = NoFile
            THEN /\ Respond(t, Resp("no file", 400, <<>>))
                 /\ UNCHANGED <<issued, uploads, h_id, h_file>>
            ELSE /\ issued < MaxJobs
                 /\ issued' = issued + 1
                 /\ h_id' = [h_id EXCEPT ![t] = uuid4]
                 /\ h_file' = [h_file EXCEPT ![t] = f]
                 /\ uploads' = uploads \cup {UploadPath(uuid4)}
                 /\ h_pc' = [h_pc EXCEPT ![t] = "up_insert"]
                 /\ UNCHANGED h_resp
  /\ UNCHANGED <<jobs, jobs_lock, work_q, wvars, h_fresh, h_items, h_out, h_cur,
                 results, ext_deleted, histvars>>

\* upload() of a request that carries no settings field
U_Save(t) == U_SaveFrom(t, {EmptyForm})

\* upload() of a request with any form
U_SaveAny(t) == U_SaveFrom(t, Forms)

\* the record upload() inserts
NewJob(job_id, filename, form) ==
  [id |-> job_id, name |-> filename, stem |-> Stem(filename),
   upload_path |-> UploadPath(job_id), status |-> "queued", result |-> None,
   error |-> None, settings |-> Settings(form), log |-> NoKey]

\* the uploads that have inserted their record and not yet called work_q.put
PendingPut == {u \in Threads : h_pc[u] = "up_put"}

\* with jobs_lock: jobs[job_id] = {...}
U_Insert(t) ==
  /\ h_pc[t] = "up_insert"
  /\ jobs_lock = Free
  /\ jobs' = DictSet(jobs, h_id[t], NewJob(h_id[t], h_file[t], h_form[t]))
  /\ Written
  /\ ins_order' = Append(ins_order, h_id[t])
  /\ overlapped' = overlapped \cup {<<h_id[u], h_id[t]>> : u \in PendingPut}
  /\ h_pc' = [h_pc EXCEPT ![t] = "up_put"]
  /\ UNCHANGED <<jobs_lock, work_q, issued, started, wvars, h_id, h_file, h_form, h_items,
                 h_out, h_cur, h_resp, fsvars, enq_order, proc_order, eval_calls>>

\* variant of U_Put that puts the identifier on the queue twice
U_Put_Twice(t) ==
  /\ h_pc[t] = "up_put"
  /\ work_q' = work_q \o <<h_id[t], h_id[t]>>
  /\ enq_order' = enq_order \o <<h_id[t], h_id[t]>>
  /\ Respond(t, Resp("job_id", 200, <<h_id[t]>>))
  /\ UNCHANGED <<jobs, jobs_lock, issued, started, wvars, h_id, h_file, h_form, h_fresh, h_items,
                 h_out, h_cur, fsvars, ins_order, proc_order, eval_calls,
                 overlapped>>

\* variant of U_Put that puts the identifier at the head of the queue
U_Put_Front(t) ==
  /\ h_pc[t] = "up_put"
  /\ work_q' = <<h_id[t]>> \o work_q
  /\ enq_order' = Append(enq_order, h_id[t])
  /\ Respond(t, Resp("job_id", 200, <<h_id[t]>>))
  /\ UNCHANGED <<jobs, jobs_lock, issued, started, wvars, h_id, h_file, h_form, h_fresh, h_items,
                 h_out, h_cur, fsvars, ins_order, proc_order, eval_calls,
                 overlapped>>

\* work_q.put(job_id); return jsonify({"job_id": job_id})
U_Put(t) ==
  /\ h_pc[t] = "up_put"
  /\ work_q' = Append(work_q, h_id[t])
  /\ enq_order' = Append(enq_order, h_id[t])
  /\ Respond(t, Resp("job_id", 200, <<h_id[t]>>))
  /\ UNCHANGED <<jobs, jobs_lock, issued, started, wvars, h_id, h_file, h_form, h_fresh, h_items,
                 h_out, h_cur, fsvars, ins_order, proc_order, eval_calls,
                 overlapped>>

\* status(): with jobs_lock: items = list(jobs.items()); items.reverse()
\* (the list holds references to the live job dicts, kept here as their keys)
S_Items(t) ==
  /\ h_pc[t] = "idle"
  /\ started < MaxRequests
  /\ started' = started + 1
  /\ jobs_lock = Free
  /\ LET items == Reverse([i \in 1..Len(jobs) |-> jobs[i].id]) IN
       /\ h_items' = [h_items EXCEPT ![t] = items]
       /\ h_fresh' = [h_fresh EXCEPT ![t] = TRUE]
       /\ IF items = <<>>
            THEN Respond(t, Resp("list", 200, <<>>))
            ELSE /\ h_pc' = [h_pc EXCEPT ![t] = "st_status"]
                 /\ UNCHANGED h_resp
  /\ UNCHANGED <<jobs, jobs_lock, work_q, issued, wvars, h_id, h_file, h_form,
                 h_out, h_cur, fsvars, histvars>>

\* the dict the comprehension is iterating over
CurJob(t) == Get(jobs, h_items[t][Len(h_out[t]) + 1])

\* the comprehension starts iterating job.items() and reaches "status"
S_Status(t) ==
  /\ h_pc[t] = "st_status"
  /\ h_cur' = [h_cur EXCEPT ![t] = [id |-> CurJob(t).id,
                                     used |-> DictLen(CurJob(t)),
                                     status |-> CurJob(t).status,
                                     result |-> None]]
  /\ h_pc' = [h_pc EXCEPT ![t] = "st_result"]
  /\ UNCHANGED <<jobs, jobs_lock, work_q, issued, started, wvars, h_id, h_file, h_form, h_fresh,
                 h_items, h_out, h_resp, fsvars, histvars>>

\* RuntimeError: dictionary changed size during iteration
SizeChanged(t) == DictLen(CurJob(t)) # h_cur[t].used

\* the iteration reaches "result"
S_Result(t) ==
  /\ h_pc[t] = "st_result"
  /\ IF SizeChanged(t)
       THEN /\ Respond(t, Resp("server error", 500, <<>>))
            /\ UNCHANGED h_cur
       ELSE /\ h_cur' = [h_cur EXCEPT ![t].result = CurJob(t).result]
            /\ h_pc' = [h_pc EXCEPT ![t] = "st_error"]
            /\ UNCHANGED h_resp
  /\ UNCHANGED <<jobs, jobs_lock, work_q, issued, started, wvars, h_id, h_file, h_form, h_fresh,
                 h_items, h_out, fsvars, histvars>>

\* the public view of one job: upload_path, stem and settings are stripped
Entry(cur, job) ==
  [id |-> cur.id, name |-> job.name, status |-> cur.status,
   result |-> cur.result, error |-> job.error, log |-> job.log]

\* variant of S_Error that strips upload_path from the live dict
S_Error_Pop(t) ==
  /\ h_pc[t] = "st_error"
  /\ jobs' = [jobs EXCEPT ![Idx(jobs, CurJob(t).id)].upload_path = None]
  /\ LET out == Append(h_out[t], Entry(h_cur[t], CurJob(t))) IN
       /\ h_out' = [h_out EXCEPT ![t] = out]
       /\ IF Len(out) = Len(h_items[t])
            THEN Respond(t, Resp("list", 200, out))
            ELSE /\ h_pc' = [h_pc EXCEPT ![t] = "st_status"]
                 /\ UNCHANGED h_resp
  /\ UNCHANGED <<jobs_lock, work_q, issued, started, wvars, h_id, h_file, h_form, h_fresh,
                 h_items, h_cur, fsvars, histvars>>

\* the iteration reaches "error" and "log" and ends; the entry is complete
S_Error(t) ==
  /\ h_pc[t] = "st_error"
  /\ IF SizeChanged(t)
       THEN /\ Respond(t, Resp("server error", 500, <<>>))
            /\ UNCHANGED h_out
       ELSE LET out == Append(h_out[t], Entry(h_cur[t], CurJob(t))) IN
            /\ h_out' = [h_out EXCEPT ![t] = out]
            /\ IF Len(out) = Len(h_items[t])
                 THEN Respond(t, Resp("list", 200, out))
                 ELSE /\ h_pc' = [h_pc EXCEPT ![t] = "st_status"]
                      /\ UNCHANGED h_resp
  /\ UNCHANGED <<jobs, jobs_lock, work_q, issued, started, wvars, h_id, h_file, h_form, h_fresh,
                 h_items, h_cur, fsvars, histvars>>

\* download(job_id): with jobs_lock: job = jobs.get(job_id); if not job: 404
D_Get(t) ==
  /\ h_pc[t] = "idle"
  /\ started < MaxRequests
  /\ started' = started + 1
  /\ jobs_lock = Free
  /\ \E job_id \in JobIds :
       /\ h_id' = [h_id EXCEPT ![t] = job_id]
       /\ IF Has(jobs, job_id)
            THEN /\ h_pc' = [h_pc EXCEPT ![t] = "dl_status"]
                 /\ UNCHANGED h_resp
            ELSE Respond(t, Resp("unknown job", 404, <<>>))
  /\ UNCHANGED <<jobs, jobs_lock, work_q, issued, wvars, h_file, h_form, h_fresh, h_items,
                 h_out, h_cur, fsvars, histvars>>

\* variant of D_Status that lets every terminal job through
D_Status_Terminal(t) ==
  /\ h_pc[t] = "dl_status"
  /\ IF Get(jobs, h_id[t]).status \notin {"done", "error"}
       THEN Respond(t, Resp("not ready", 409, <<>>))
       ELSE /\ h_pc' = [h_pc EXCEPT ![t] = "dl_result"]
            /\ UNCHANGED h_resp
  /\ UNCHANGED <<jobs, jobs_lock, work_q, issued, started, wvars, h_id, h_file, h_form, h_fresh,
                 h_items, h_out, h_cur, fsvars, histvars>>

\* if job["status"] != "done": 409
D_Status(t) ==
  /\ h_pc[t] = "dl_status"
  /\ IF Get(jobs, h_id[t]).status # "done"
       THEN Respond(t, Resp("not ready", 409, <<>>))
       ELSE /\ h_pc' = [h_pc EXCEPT ![t] = "dl_result"]
            /\ UNCHANGED h_resp
  /\ UNCHANGED <<jobs, jobs_lock, work_q, issued, started, wvars, h_id, h_file, h_form, h_fresh,
                 h_items, h_out, h_cur, fsvars, histvars>>

\* result_path = job["result"]; the existence check; send_file
D_Result(t) ==
  /\ h_pc[t] = "dl_result"
  /\ LET result_path == Get(jobs, h_id[t]).result IN
       IF result_path = None \/ result_path \notin results
         THEN Respond(t, Resp("result file missing", 404, <<>>))
         ELSE Respond(t, Resp("artifact", 200, <<result_path>>))
  /\ UNCHANGED <<jobs, jobs_lock, work_q, issued, started, wvars, h_id, h_file, h_form, h_fresh,
                 h_items, h_out, h_cur, fsvars, histvars>>

\* the response is sent and the request thread ends
H_Return(t) ==
  /\ h_pc[t] = "respond"
  /\ h_pc' = [h_pc EXCEPT ![t] = "idle"]
  /\ h_id' = [h_id EXCEPT ![t] = 0]
  /\ h_file' = [h_file EXCEPT ![t] = NoFile]
  /\ h_form' = [h_form EXCEPT ![t] = EmptyForm]
  /\ h_fresh' = [h_fresh EXCEPT ![t] = FALSE]
  /\ h_items' = [h_items EXCEPT ![t] = <<>>]
  /\ h_out' = [h_out EXCEPT ![t] = <<>>]
  /\ h_cur' = [h_cur EXCEPT ![t] = NoCur]
  /\ h_resp' = [h_resp EXCEPT ![t] = NoResp]
  /\ UNCHANGED <<jobs, jobs_lock, work_q, issued, started, wvars, fsvars, histvars>>

\* a result file is removed from outside the program
ExternalDelete ==
  /\ \E p \in results :
       /\ results' = results \ {p}
       /\ ext_deleted' = ext_deleted \cup {p}
  /\ UNCHANGED <<jobs, jobs_lock, work_q, issued, started, wvars, hvars, uploads, histvars>>

\* variant of upload that enqueues the identifier before it inserts the record
U_PutFirst(t) ==
  /\ h_pc[t] = "up_insert"
  /\ work_q' = Append(work_q, h_id[t])
  /\ enq_order' = Append(enq_order, h_id[t])
  /\ h_pc' = [h_pc EXCEPT ![t] = "up_put"]
  /\ UNCHANGED <<jobs, jobs_lock, issued, started, wvars, h_id, h_file, h_form, h_fresh, h_items,
                 h_out, h_cur, h_resp, fsvars, ins_order, proc_order, eval_calls,
                 overlapped>>

U_InsertLast(t) ==
  /\ h_pc[t] = "up_put"
  /\ jobs_lock = Free
  /\ jobs' = DictSet(jobs, h_id[t], NewJob(h_id[t], h_file[t], h_form[t]))
  /\ Written
  /\ ins_order' = Append(ins_order, h_id[t])
  /\ Respond(t, Resp("job_id", 200, <<h_id[t]>>))
  /\ UNCHANGED <<jobs_lock, work_q, issued, started, wvars, h_id, h_file, h_form, h_items,
                 h_out, h_cur, fsvars, enq_order, proc_order, eval_calls,
                 overlapped>>

upload_EnqueueFirst ==
  \E t \in Threads : U_Save(t) \/ U_PutFirst(t) \/ U_InsertLast(t)

upload == \E t \in Threads : U_Save(t) \/ U_Insert(t) \/ U_Put(t)
status == \E t \in Threads : S_Items(t) \/ S_Status(t) \/ S_Result(t) \/ S_Error(t)
download == \E t \in Threads : D_Get(t) \/ D_Status(t) \/ D_Result(t)

Next ==
  \/ worker
  \/ upload
  \/ status
  \/ download
  \/ \E t \in Threads : H_Return(t)
  \/ ExternalDelete

Spec == Init /\ [][Next]_vars

\* uploads and the worker alone
NextWork ==
  \/ worker
  \/ upload
  \/ \E t \in Threads : H_Return(t)

\* the worker thread is scheduled: a step it can take is eventually taken
\* (imread, MODEL.eval and imwrite return or raise, and no request thread
\* keeps jobs_lock)
WorkSpec == Init /\ [][NextWork]_vars /\ WF_vars(worker)

\* uploads with every form, no worker: the records upload() stores
NextForm ==
  \/ \E t \in Threads : U_SaveAny(t)
  \/ \E t \in Threads : U_Insert(t)
  \/ \E t \in Threads : U_Put(t)
  \/ \E t \in Threads : H_Return(t)

SpecForm == Init /\ [][NextForm]_vars

\* SegmentationSettings(**form) called in a request thread: the outcome is
\* the thread's response
V_Validate(t) ==
  /\ h_pc[t] = "idle"
  /\ started < MaxRequests
  /\ started' = started + 1
  /\ \E form \in SchemaForms :
       /\ h_form' = [h_form EXCEPT ![t] = form]
       /\ IF SegmentationSettings(form).ok
            THEN Respond(t, Resp("settings", 0, <<SegmentationSettings(form).settings>>))
            ELSE Respond(t, Resp("ValidationError", 0, <<SegmentationSettings(form).errors>>))
  /\ UNCHANGED <<jobs, jobs_lock, work_q, issued, wvars, h_id, h_file, h_fresh,
                 h_items, h_out, h_cur, fsvars, histvars>>

NextSchema ==
  \/ \E t \in Threads : V_Validate(t)
  \/ \E t \in Threads : H_Return(t)

SpecSchema == Init /\ [][NextSchema]_vars

\* ---- properties ----

Terminal == {"done", "error"}
Transitions == {<<"queued", "processing">>, <<"processing", "done">>,
                <<"processing", "error">>}
StatusOf(job_id) == Get(jobs, job_id).status

\* C1: a record is inserted with status queued and its status afterwards
\* changes only queued -> processing -> done or queued -> processing -> error:
\* never backward, never skipping processing, never leaving done or error.
C1_StatusForwardOnly ==
  [][ /\ Len(jobs') >= Len(jobs)
      /\ \A i \in 1..Len(jobs') :
           IF i <= Len(jobs)
             THEN /\ jobs'[i].id = jobs[i].id
                  /\ \/ jobs'[i].status = jobs[i].status
                     \/ <<jobs[i].status, jobs'[i].status>> \in Transitions
             ELSE jobs'[i].status = "queued" ]_vars

\* both terminal states were reached, each through processing
C1_Witness ==
  \E i, j \in 1..Len(jobs) :
    /\ jobs[i].status = "done"
    /\ jobs[j].status = "error"
    /\ Len(proc_order) = 2

\* C2: in every reachable state at most one record has status processing.
C2_AtMostOneProcessing ==
  Cardinality({i \in 1..Len(jobs) : jobs[i].status = "processing"}) <= 1

\* one job is being processed while a second submitted job waits in the queue
C2_Witness ==
  \E i, j \in 1..Len(jobs) :
    /\ jobs[i].status = "processing"
    /\ jobs[j].status = "queued"
    /\ jobs[j].id \in {work_q[k] : k \in 1..Len(work_q)}

\* C3: whenever jobs_lock is not held, every record has result set iff its
\* status is done and error set iff its status is error.
C3_ResultErrorMatchStatus ==
  jobs_lock = Free =>
    \A i \in 1..Len(jobs) :
      /\ (jobs[i].result # None) <=> (jobs[i].status = "done")
      /\ (jobs[i].error # None) <=> (jobs[i].status = "error")

\* the lock is free, one job ended done with its result and one ended error
C3_Witness ==
  /\ jobs_lock = Free
  /\ \E i, j \in 1..Len(jobs) :
       /\ jobs[i].status = "done" /\ jobs[i].result = ResultPath(jobs[i].id)
       /\ jobs[j].status = "error" /\ jobs[j].error \in Exceptions

\* C4: a download never answers "result file missing" unless the result file
\* was deleted from outside: the handler never sees status done with a null
\* result path.
C4_NoResultMissing ==
  \A t \in Threads :
    h_resp[t].kind = "result file missing" => ResultPath(h_id[t]) \in ext_deleted

\* one entry of a status response agrees with itself
ConsistentEntry(e) ==
  /\ (e.result # None) <=> (e.status = "done")
  /\ (e.error # None) <=> (e.status = "error")

\* C5: every entry returned by a status request has result set iff its status
\* is done and error set iff its status is error.
C5_StatusEntriesConsistent ==
  \A t \in Threads :
    h_resp[t].kind = "list" =>
      \A k \in 1..Len(h_resp[t].data) : ConsistentEntry(h_resp[t].data[k])

\* C6: whenever a job's status is done or error its uploaded input file no
\* longer exists.
C6_InputRemovedWhenTerminal ==
  \A i \in 1..Len(jobs) :
    jobs[i].status \in Terminal => jobs[i].upload_path \notin uploads

\* the record of job_id is the only one that differs between d and e
OthersUnchanged(d, e, job_id) ==
  /\ Len(e) = Len(d)
  /\ \A i \in 1..Len(d) : d[i].id # job_id => e[i] = d[i]

\* C7: a failure of loading, segmentation or result writing is caught; the
\* job's status becomes error and its error field the failure message, no
\* other record changes, and the worker returns to the top of its loop.
C7_FailureContained ==
  [][ /\ (w_exc = None /\ w_exc' # None) =>
           /\ w_pc \in {"imread", "eval", "imwrite", "unlink"}
           /\ w_pc' = "except"
           /\ UNCHANGED <<jobs, w_job>>
      /\ (w_pc = "except" /\ w_pc' # "except") =>
           /\ StatusOf(w_job)' = "error"
           /\ OthersUnchanged(jobs, jobs', w_job)
           /\ w_pc' = "except_error"
      /\ (w_pc = "except_error" /\ w_pc' # "except_error") =>
           /\ Get(jobs', w_job).status = "error"
           /\ Get(jobs', w_job).error = w_exc
           /\ w_exc \in Exceptions
           /\ OthersUnchanged(jobs, jobs', w_job)
           /\ w_pc' = "finally"
      /\ (w_pc = "finally" /\ w_pc' # "finally") => w_pc' = "get"
      /\ w_pc' \notin {"unwind", "dead"} ]_vars

\* a job failed with its message recorded and the worker went on to the next
\* queued identifier
C7_Witness ==
  /\ Len(proc_order) = 2
  /\ StatusOf(proc_order[1]) = "error"
  /\ Get(jobs, proc_order[1]).error \in {ExcLoad, ExcSegment, ExcWrite}
  /\ StatusOf(proc_order[2]) = "done"

\* the identifiers the worker has taken off the queue, in order
Taken == proc_order \o (IF w_pc = "mark" THEN <<w_job>> ELSE <<>>)

\* C8: jobs become processing in the order their identifiers were enqueued,
\* and a job becomes processing only after every job enqueued before it has
\* reached a terminal state.
C8_ProcessingFollowsEnqueueOrder ==
  /\ Taken \o work_q = enq_order
  /\ \A k \in 1..(Len(proc_order) - 1) : StatusOf(proc_order[k]) \in Terminal

\* two jobs were processed, enqueued in the opposite order of their uuids
C8_Witness ==
  /\ enq_order = <<2, 1>>
  /\ proc_order = <<2, 1>>

NewestFirst(s) == [k \in 1..Len(s) |-> s[Len(s) + 1 - k]]
JobKeys == [i \in 1..Len(jobs) |-> jobs[i].id]
EntryIds(out) == [k \in 1..Len(out) |-> out[k].id]
InStatus(t) == h_pc[t] \in {"st_status", "st_result", "st_error"}

\* C9: the store holds one record per insert, under pairwise distinct
\* identifiers, in insertion order; an identifier returned by upload is in
\* the store; a status request snapshots all records and returns them
\* newest-inserted first.
C9_AllRecordsNewestFirst ==
  [][ /\ JobKeys' = ins_order'
      /\ Cardinality(Keys(jobs')) = Len(ins_order')
      /\ \A t \in Threads :
           /\ h_resp'[t].kind = "job_id" => Has(jobs', h_resp'[t].data[1])
           /\ (h_pc[t] = "idle" /\ (InStatus(t)' \/ h_resp'[t].kind = "list")) =>
                h_items'[t] = NewestFirst(ins_order)
           /\ h_resp'[t].kind = "list" =>
                EntryIds(h_resp'[t].data) = h_items'[t] ]_vars

\* both uploads were inserted in the opposite order of their uuids, both jobs
\* are terminal and a status response lists both, newest first
C9_Witness ==
  /\ ins_order = <<2, 1>>
  /\ \A i \in 1..Len(jobs) : jobs[i].status \in Terminal
  /\ \E t \in Threads :
       /\ h_resp[t].kind = "list"
       /\ EntryIds(h_resp[t].data) = <<1, 2>>
       /\ \A k \in 1..2 : h_resp[t].data[k].status \in Terminal

DownloadKinds == {"unknown job", "not ready", "result file missing", "artifact"}

\* the outcome the job state calls for
DownloadOutcome(job_id) ==
  IF ~Has(jobs, job_id) THEN Resp("unknown job", 404, <<>>)
  ELSE IF StatusOf(job_id) # "done" THEN Resp("not ready", 409, <<>>)
  ELSE IF Get(jobs, job_id).result = None
          \/ Get(jobs, job_id).result \notin results
    THEN Resp("result file missing", 404, <<>>)
  ELSE Resp("artifact", 200, <<Get(jobs, job_id).result>>)

\* C10: a download answers unknown job iff the identifier is not in the store,
\* else not ready iff the status is not done, else result file missing iff no
\* result file is recorded or the recorded file does not exist, else the
\* artifact; only the last outcome carries an artifact.
C10_DownloadOutcome ==
  [][ \A t \in Threads :
        (h_resp[t] = NoResp /\ h_resp'[t].kind \in DownloadKinds) =>
          /\ h_resp'[t] = DownloadOutcome(h_id'[t])
          /\ (h_resp'[t].data # <<>>) <=> (h_resp'[t].kind = "artifact") ]_vars

\* one download was refused before the job was done and another returned the
\* artifact of the same job
C10_Witness ==
  \E t, u \in Threads :
    /\ h_resp[t].kind = "not ready" /\ h_resp[t].code = 409
    /\ h_resp[u].kind = "artifact" /\ h_resp[u].data = <<ResultPath(h_id[u])>>
    /\ h_id[t] = h_id[u]

\* the positions of the worker at which it is between two writes of one
\* critical section
InCritical == w_pc \in {"done_result", "except_error"}

\* C12: jobs_lock is never held while the worker reads the image, runs the
\* segmentation call, writes the result or deletes the input, nor by a request
\* thread that saves an upload or builds its response; so while a segmentation
\* call is in flight the lock is free for every request.
C12_LockNeverHeldAcrossWork ==
  /\ jobs_lock \in {Free, WorkerT}
  /\ (jobs_lock = WorkerT) <=> InCritical
  /\ w_pc \in {"imread", "eval", "imwrite", "unlink"} => jobs_lock = Free

\* an upload, a status request and a download completed while the
\* segmentation call of a job was in flight
C12_Witness ==
  /\ w_pc = "eval"
  /\ \E t \in Threads :
       /\ h_resp[t].kind = "list"
       /\ Len(h_resp[t].data) = 1
       /\ h_resp[t].data[1].status = "processing"

NoDup(s) == \A i, j \in 1..Len(s) : i # j => s[i] # s[j]
Count(s, x) == Cardinality({i \in 1..Len(s) : s[i] = x})

\* C13: every identifier is put on the work queue exactly once (once its
\* upload has returned) and dequeued at most once; a job becomes processing at
\* most once and the segmentation call runs at most once per job.
C13_ProcessedAtMostOnce ==
  /\ NoDup(enq_order)
  /\ NoDup(Taken \o work_q)
  /\ NoDup(proc_order)
  /\ NoDup(eval_calls)
  /\ \A t \in Threads :
       h_resp[t].kind = "job_id" => Count(enq_order, h_resp[t].data[1]) = 1

\* two jobs went through the segmentation call and the queue is empty again
C13_Witness ==
  /\ Len(eval_calls) = 2
  /\ Len(proc_order) = 2
  /\ work_q = <<>>
  /\ w_pc = "get"

SeqRange(s) == {s[i] : i \in 1..Len(s)}

\* C14: every identifier that is on the work queue, held by the worker or
\* returned by upload has a record in the store, and the worker's lookup of a
\* dequeued identifier never fails.
C14_KnownIdsHaveRecords ==
  /\ \A job_id \in SeqRange(work_q) : Has(jobs, job_id)
  /\ w_pc \notin {"get", "dead"} => Has(jobs, w_job)
  /\ \A t \in Threads :
       h_resp[t].kind = "job_id" => Has(jobs, h_resp[t].data[1])
  /\ w_pc # "dead"

\* one identifier waits on the queue, one was just dequeued and one was
\* returned to its submitter
C14_Witness ==
  /\ work_q # <<>>
  /\ w_pc = "mark"
  /\ \E t \in Threads : h_resp[t].kind = "job_id"

\* C15: a failure of the input deletion alone never turns a job into error:
\* a job whose segmentation and result write succeeded ends done, so every
\* job in error failed while loading, segmenting or writing the result.
C15_UnlinkFailureNotFatal ==
  jobs_lock = Free =>
    \A i \in 1..Len(jobs) :
      jobs[i].status = "error" =>
        jobs[i].error \in {ExcLoad, ExcSegment, ExcWrite}

\* ---- C16 ----

ReadPcs == {"st_status", "st_result", "st_error", "dl_status", "dl_result"}

\* thread t takes a step of a status or download request
ReadStep(t) ==
  /\ h_pc'[t] # h_pc[t]
  /\ \/ h_pc[t] \in ReadPcs
     \/ h_pc'[t] \in ReadPcs
     \/ h_pc[t] = "idle" /\ h_resp'[t].kind \in {"list", "unknown job"}

\* what a status request shows of one record
Public(job) ==
  [id |-> job.id, name |-> job.name, status |-> job.status,
   result |-> job.result, error |-> job.error, log |-> job.log]

\* the list a status request returns for the store j
PublicView(j) == [i \in 1..Len(j) |-> Public(j[Len(j) + 1 - i])]

\* the fields of a record that are set once, at insertion
Inserted(job) == <<job.id, job.name, job.stem, job.upload_path, job.settings>>

\* C16: status and download requests are read-only: each of their steps
\* leaves every job record, the identifiers in the store, the work queue and
\* the files unchanged; a status response built from a copy of the store that
\* no write has followed is exactly the public view of the store, so two
\* such responses are identical; and name, stem, upload path and settings of
\* a record never change after insertion, whatever step is taken.
C16_ReadsAreReadOnly ==
  [][ /\ \A t \in Threads :
           ReadStep(t) => UNCHANGED <<jobs, work_q, uploads, results>>
      /\ \A i \in 1..Len(jobs) :
           /\ i <= Len(jobs')
           /\ Inserted(jobs'[i]) = Inserted(jobs[i])
      /\ \A t \in Threads :
           (h_fresh'[t] /\ h_resp'[t].kind = "list")
             => h_resp'[t].data = PublicView(jobs')
    ]_vars

\* two status requests answered with no write in between, one job stored
C16_Witness ==
  \A t \in Threads :
    /\ h_fresh[t]
    /\ h_resp[t].kind = "list"
    /\ Len(h_resp[t].data) = 1
    /\ h_resp[t].data = PublicView(jobs)

\* ---- C11 ----

\* the form has a numeric field that does not parse as its declared kind
\* (a blank diameter asks for auto-estimation and is not counted)
Malformed(form) ==
  \/ form["diameter"] \notin {Absent, "", "  "} /\ ~ParseFloat(form["diameter"]).ok
  \/ \E k \in {"flow_threshold", "cellprob_threshold"} :
       form[k] # Absent /\ ~ParseFloat(form[k]).ok
  \/ \E k \in {"channel_cyto", "channel_nuc", "min_size"} :
       form[k] # Absent /\ ~ParseInt(form[k]).ok

\* C11: an upload request whose settings contain a malformed field is
\* answered with a client error and has created nothing: it was given no
\* identifier, so no record, no queue entry and no upload file are its own.
C11_MalformedRejected ==
  \A t \in Threads :
    (h_pc[t] = "respond" /\ Malformed(h_form[t])) =>
      /\ h_resp[t].code \in 400..499
      /\ h_id[t] = 0

\* ---- C17 ----

\* diameter is absent, empty or not positive
BlankDiameter(form) ==
  \/ form["diameter"] \in {Absent, ""}
  \/ ParseFloat(form["diameter"]).ok /\ ParseFloat(form["diameter"]).val <= 0

\* anisotropy is absent, empty or whitespace only
BlankAnisotropy(form) == form["anisotropy"] \in {Absent, "", "  "}

\* C17: the settings validator does not reject a blank or non-positive
\* optional numeric input but stores null: diameter absent, empty or <= 0
\* gives diameter = null, and anisotropy absent, empty or whitespace only
\* gives anisotropy = null.
C17_BlankStoredAsNull ==
  \A t \in Threads :
    /\ (h_resp[t].kind = "ValidationError" /\ BlankDiameter(h_form[t]))
         => "diameter" \notin h_resp[t].data[1]
    /\ (h_resp[t].kind = "ValidationError" /\ BlankAnisotropy(h_form[t]))
         => "anisotropy" \notin h_resp[t].data[1]
    /\ (h_resp[t].kind = "settings" /\ BlankDiameter(h_form[t]))
         => h_resp[t].data[1]["diameter"] = PyNone
    /\ (h_resp[t].kind = "settings" /\ BlankAnisotropy(h_form[t]))
         => h_resp[t].data[1]["anisotropy"] = PyNone

\* ---- C18 ----

\* C18: every job record in the store has cytoplasm and nucleus channel
\* indices in {0, 1, 2, 3}.
C18_ChannelsBounded ==
  \A i \in 1..Len(jobs) :
    \A c \in 1..2 : jobs[i].settings.channels[c][1] \in 0..3

\* ---- C19 ----

\* the upload of job_id has returned: its identifier was put on the queue
Returned(job_id) == \E i \in 1..Len(enq_order) : enq_order[i] = job_id

\* C19: with the worker scheduled and every segmentation call returning or
\* raising, every job whose upload returned eventually has status done or
\* error, however many earlier jobs failed.
C19_EveryJobTerminates ==
  \A job_id \in 1..MaxJobs :
    Returned(job_id) ~> (Has(jobs, job_id) /\ Get(jobs, job_id).status \in {"done", "error"})

\* the second job is done after the first one failed
C19_Witness ==
  /\ Len(jobs) = 2
  /\ Returned(1) /\ Returned(2)
  /\ Len(proc_order) = 2
  /\ Get(jobs, proc_order[1]).status = "error"
  /\ Get(jobs, proc_order[2]).status = "done"

\* ---- C20 ----

\* job b enters processing only after job a has
After(a, b) ==
  \A m \in 1..Len(proc_order) :
    proc_order[m] = b => \E l \in 1..(m - 1) : proc_order[l] = a

\* C20 as stated: jobs enter processing in the order in which their records
\* were inserted into the store, for every interleaving of uploads.
C20_ProcessingFollowsInsertOrder ==
  \A i, j \in 1..Len(ins_order) :
    i < j => After(ins_order[i], ins_order[j])

\* C20 amended: a job inserted later is never processed before a job
\* inserted earlier, unless the later insert happened between the earlier
\* upload's insert and its work_q.put (the two uploads overlapped there);
\* then the enqueue order decides.
C20_InsertOrderUnlessOverlapped ==
  \A i, j \in 1..Len(ins_order) :
    (i < j /\ <<ins_order[i], ins_order[j]>> \notin overlapped)
      => After(ins_order[i], ins_order[j])

\* two uploads that did not overlap, both processed, the worker having
\* taken the first while the second was still being uploaded or queued
C20_Witness ==
  /\ Len(ins_order) = 2
  /\ overlapped = {}
  /\ proc_order = ins_order
  /\ enq_order = ins_order

====
